---- MODULE Spec2Model ----
(***************************************************************************)
(* A model of paws: zip_to (utils.py), push_to_s3 (s3.py), the Lambda /    *)
(* API Gateway helpers of lambda_tools/function_tools.py and the           *)
(* lambda_api decorator of lambda_tools/decorators.py.                     *)
(*                                                                         *)
(* The program is single threaded.  A caller invokes one public function   *)
(* at a time; every SDK call and every local filesystem operation the      *)
(* function makes is one step.  The local filesystem and the three remote  *)
(* services (S3, Lambda, API Gateway) are the state.                       *)
(***************************************************************************)
EXTENDS Integers, Sequences, FiniteSets, TLC

\* ------------------------------------------------------------------ bounds
MaxCalls == 2
MaxApis == 2

\* --------------------------------------------------------------- the values
\* A path is the sequence of its components; a file's last two components
\* are its stem and its extension.
SourceDir == <<"work", "D">>
MissingDir == <<"work", "missing">>
WorkZip == <<"work", "D", "zip">>
OutZip == <<"out", "a", "zip">>
TmpZip == <<"tmp", "lambda_function", "zip">>
Files == {WorkZip, OutZip, TmpZip}
Dirs == {SourceDir}

\* File contents: absent, something that was there before, or an archive.
Archive(dir) == IF dir = SourceDir THEN "zip of D" ELSE "zip of nothing"
Contents == {"none", "old", Archive(SourceDir)}

Buckets == {"b1"}
CustomKey == <<"k">>
Names == {"f1", "f2"}
Stages == {"test", "prod"}

\* Path(p).name
BaseName(p) == SubSeq(p, 2, Len(p))

Keys == {BaseName(OutZip), BaseName(TmpZip), CustomKey}

NoneKey == <<"None">>
NoLayers == [supplied |-> FALSE, list |-> <<>>]
Supplied(l) == [supplied |-> TRUE, list |-> l]

\* The layers arguments the caller tries.
CreateLayers == {NoLayers, Supplied(<<"L1">>)}
UpdateLayers == {NoLayers, Supplied(<<>>), Supplied(<<"L2">>)}

VARIABLES
    platform,   \* the operating system the program runs on
    fs,         \* the local files: path -> content
    store,      \* S3: the buckets and their objects
    functions,  \* Lambda: name -> function definition
    apis,       \* API Gateway: the REST APIs, in creation order
    op,         \* the public function the caller invoked
    args,       \* its arguments (and those of the call in progress)
    pc,         \* the step the program is at
    loc,        \* the local variables of the functions in progress
    log,        \* the steps this invocation made, with their outcome
    result,     \* what the invocation returned or raised
    snap,       \* the files and services as the invocation found them
    urls,       \* the URLs create_lambda_api_link has returned
    calls,      \* the number of invocations so far
    heap,       \* the dict objects of the decorated handler, by reference
    returned    \* the responses the decorated handler has returned

vars == <<platform, fs, store, functions, apis, op, args, pc, loc,
          log, result, snap, urls, calls, heap, returned>>

\* What only the decorated handler changes, and the platform.
env == <<platform, heap, returned>>

\* lambda_api(f): base = {'headers': {...}}, the one dict of the closure.
Headers == "Content-Type, Access-Control-Allow-Origin, Access-Control-Allow-Credentials"
Base0 == [keys |-> {"headers"}, headers |-> Headers, statusCode |-> 0, body |-> <<>>]

\* The reference of base among the dict objects.
BaseRef == 1

\* The event without a body key, and the events with one.
NoEvent == [has_body |-> FALSE, body |-> ""]
Bodies == {"", "{\"x\": 1}", "[1]", "{oops"}
Events == {NoEvent} \cup {[has_body |-> TRUE, body |-> b] : b \in Bodies}

NoFunction == [exists |-> FALSE, code |-> <<>>, layers |-> <<>>, perm |-> FALSE]

NoArgs ==
    [to_zip |-> <<>>, zip_name |-> <<>>, overwrite |-> FALSE,
     file |-> <<>>, bucket_name |-> "", key |-> NoneKey, create_bucket |-> FALSE,
     function_name |-> "", layers |-> NoLayers, api_gateway_permission |-> FALSE,
     make_api |-> FALSE, function_arn |-> <<>>, api_name |-> "",
     path_part |-> "", stage_name |-> "", event |-> NoEvent]

NoLoc ==
    [s3ed |-> [bucket_name |-> "", key |-> NoneKey], arn |-> <<>>, rest_api_id |-> 0,
     parent_resource |-> <<>>, created_resource_id |-> <<>>]

NoResult == [status |-> "none", err |-> "", val |-> <<>>]
Ok(v) == [status |-> "ok", err |-> "", val |-> v]
Err(e) == [status |-> "err", err |-> e, val |-> <<>>]

Snapshot == [fs |-> fs, store |-> store, functions |-> functions, apis |-> apis]

Init ==
    /\ platform \in {"posix", "windows"}
    /\ fs \in {f \in [Files -> {"none", "old"}] : f[TmpZip] = "none"}
    /\ store = [buckets |-> {}, objects |-> [bk \in Buckets \X Keys |-> "none"]]
    /\ functions = [n \in Names |-> NoFunction]
    /\ apis = <<>>
    /\ op = "idle"
    /\ args = NoArgs
    /\ pc = "idle"
    /\ loc = NoLoc
    /\ log = <<>>
    /\ result = NoResult
    /\ snap = [fs |-> fs, store |-> store, functions |-> functions, apis |-> apis]
    /\ urls = <<>>
    /\ calls = 0
    /\ heap = <<Base0>>
    /\ returned = <<>>

\* ---------------------------------------------------------------- invoking
Idle == pc \in {"idle", "done"} /\ calls < MaxCalls

Invoke(o, a, first) ==
    /\ Idle
    /\ op' = o
    /\ args' = a
    /\ pc' = first
    /\ loc' = NoLoc
    /\ log' = <<>>
    /\ result' = NoResult
    /\ snap' = Snapshot
    /\ calls' = calls + 1
    /\ UNCHANGED <<env, fs, store, functions, apis, urls>>

\* The functions that work inside a `with TemporaryDirectory() as t` block.
UsesTmp == op \in {"create_function", "update_function", "deploy_function"}

\* Leaving the with block removes t and what is in it.
Cleanup(f) == [f EXCEPT ![TmpZip] = "none"]

\* An exception propagates to the caller.
Raise(e) ==
    /\ result' = Err(e)
    /\ pc' = "done"

Return(v) ==
    /\ result' = Ok(v)
    /\ pc' = "done"

\* -------------------------------------------------------- utils.py: zip_to
\* shutil.make_archive(to_zip, "zip", root_dir=to_zip) writes to_zip + ".zip".
MakeArchiveName(to_zip) == to_zip \o <<"zip">>

\* Path(src).rename(dst): the outcome, and the files after it.
Rename(f, src, dst) ==
    IF f[src] = "none"
    THEN [err |-> "FileNotFoundError", fs |-> f]
    ELSE IF platform = "windows" /\ f[dst] # "none"
    THEN [err |-> "FileExistsError", fs |-> f]
    ELSE [err |-> "", fs |-> [f EXCEPT ![dst] = f[src], ![src] = "none"]]

\* zip_to(to_zip, zip_name, overwrite): the outcome, and the files after it.
ZipTo(f, to_zip, zip_name, overwrite) ==
    IF to_zip \notin Dirs
    THEN [err |-> "FileNotFoundError", fs |-> f]
    ELSE LET zipped == MakeArchiveName(to_zip)
             f1 == [f EXCEPT ![zipped] = Archive(to_zip)]
             f2 == IF overwrite /\ f1[zip_name] # "none"
                   THEN [f1 EXCEPT ![zip_name] = "none"]
                   ELSE f1
         IN  Rename(f2, zipped, zip_name)

Invoke_zip_to ==
    \E d \in {SourceDir, MissingDir}, o \in BOOLEAN :
        Invoke("zip_to",
               [NoArgs EXCEPT !.to_zip = d, !.zip_name = OutZip, !.overwrite = o],
               "zip_to")

zip_to ==
    /\ pc = "zip_to"
    /\ LET r == ZipTo(fs, args.to_zip, args.zip_name, args.overwrite)
       IN  /\ log' = Append(log, <<"zip_to", IF r.err = "" THEN "ok" ELSE r.err>>)
           /\ IF r.err # ""
              THEN /\ fs' = IF UsesTmp THEN Cleanup(r.fs) ELSE r.fs
                   /\ Raise(r.err)
                   /\ UNCHANGED <<args>>
              ELSE IF UsesTmp
              THEN /\ fs' = r.fs
                   /\ pc' = "put_object"
                   /\ args' = [args EXCEPT !.file = args.zip_name]
                   /\ UNCHANGED result
              ELSE /\ fs' = r.fs
                   /\ Return(args.zip_name)
                   /\ UNCHANGED <<args>>
    /\ UNCHANGED <<env, store, functions, apis, op, loc, snap, urls, calls>>

\* Python's truth value of the layers argument: None and [] are false.
Truthy(layers) == layers.supplied /\ layers.list # <<>>

\* ------------------------------------------------------- s3.py: push_to_s3
\* S3's PutObject: the outcome, and the store after it.
PutObject(s, bucket, key, body) ==
    IF bucket \notin s.buckets
    THEN [err |-> "NoSuchBucket", store |-> s]
    ELSE [err |-> "",
          store |-> [s EXCEPT !.objects[<<bucket, key>>] = body]]

\* S3's CreateBucket.
CreateBucket(s, bucket) ==
    IF bucket \in s.buckets
    THEN [err |-> "BucketAlreadyOwnedByYou", store |-> s]
    ELSE [err |-> "", store |-> [s EXCEPT !.buckets = @ \cup {bucket}]]

\* The s3.Object put_object returns.
S3Object(bucket, key) == [bucket_name |-> bucket, key |-> key]

\* `if key is None: key = file_path.name`
DefaultKey(key, file) == IF key = NoneKey THEN BaseName(file) ELSE key

\* The key of the first bucket.put_object call.
FirstPutKey(key, file) == BaseName(file)

\* The key of the bucket.put_object call after the bucket was created.
RetryPutKey(key, file) == DefaultKey(key, file)

\* A mutation: the flag is not looked at.
CreatesBucketUnasked(err, create_bucket) == err = "NoSuchBucket"

\* A mutation: every failure of the write leads to create and retry.
CreatesBucketOnAnyError(err, create_bucket) == create_bucket

\* `except ...NoSuchBucket as e: if create_bucket:`
CreatesBucket(err, create_bucket) == err = "NoSuchBucket" /\ create_bucket

\* push_to_s3 returns r: to the caller, or to the function that called it.
PushReturns(r, f) ==
    IF UsesTmp
    THEN /\ loc' = [loc EXCEPT !.s3ed = r]
         /\ fs' = Cleanup(f)
         /\ pc' = IF op # "update_function" THEN "create_function"
                  ELSE IF Truthy(args.layers) THEN "update_function_configuration"
                  ELSE "update_function_code"
         /\ UNCHANGED result
    ELSE /\ Return(r)
         /\ fs' = f
         /\ UNCHANGED loc

PushRaises(e, f) ==
    /\ Raise(e)
    /\ fs' = IF UsesTmp THEN Cleanup(f) ELSE f
    /\ UNCHANGED loc

Invoke_push_to_s3 ==
    \E b \in Buckets, k \in {NoneKey, CustomKey}, c \in BOOLEAN :
        Invoke("push_to_s3",
               [NoArgs EXCEPT !.file = OutZip, !.bucket_name = b, !.key = k,
                              !.create_bucket = c],
               "put_object")

\* file_path.read_bytes(), then the first bucket.put_object.
put_object ==
    /\ pc = "put_object"
    /\ IF fs[args.file] = "none"
       THEN /\ PushRaises("FileNotFoundError", fs)
            /\ UNCHANGED <<store, log>>
       ELSE \E fault \in BOOLEAN :
            LET r == IF fault THEN [err |-> "ClientError", store |-> store]
                     ELSE PutObject(store, args.bucket_name,
                                    FirstPutKey(args.key, args.file), fs[args.file])
            IN  /\ log' = Append(log, <<"put_object", IF r.err = "" THEN "ok" ELSE r.err>>)
                /\ store' = r.store
                /\ IF r.err = ""
                   THEN PushReturns(S3Object(args.bucket_name,
                                             FirstPutKey(args.key, args.file)), fs)
                   ELSE IF CreatesBucket(r.err, args.create_bucket)
                   THEN /\ pc' = "bucket_create"
                        /\ UNCHANGED <<fs, loc, result>>
                   ELSE PushRaises(r.err, fs)
    /\ UNCHANGED <<env, functions, apis, op, args, snap, urls, calls>>

\* bucket.create(CreateBucketConfiguration=...)
bucket_create ==
    /\ pc = "bucket_create"
    /\ \E fault \in BOOLEAN :
       LET r == IF fault THEN [err |-> "ClientError", store |-> store]
                ELSE CreateBucket(store, args.bucket_name)
       IN  /\ log' = Append(log, <<"bucket_create", IF r.err = "" THEN "ok" ELSE r.err>>)
           /\ store' = r.store
           /\ IF r.err = ""
              THEN /\ pc' = "put_object_retry"
                   /\ UNCHANGED <<fs, loc, result>>
              ELSE PushRaises(r.err, fs)
    /\ UNCHANGED <<env, functions, apis, op, args, snap, urls, calls>>

\* The bucket.put_object in the except clause.
put_object_retry ==
    /\ pc = "put_object_retry"
    /\ \E fault \in BOOLEAN :
       LET r == IF fault THEN [err |-> "ClientError", store |-> store]
                ELSE PutObject(store, args.bucket_name,
                               RetryPutKey(args.key, args.file), fs[args.file])
       IN  /\ log' = Append(log, <<"put_object", IF r.err = "" THEN "ok" ELSE r.err>>)
           /\ store' = r.store
           /\ IF r.err = ""
              THEN PushReturns(S3Object(args.bucket_name,
                                        RetryPutKey(args.key, args.file)), fs)
              ELSE PushRaises(r.err, fs)
    /\ UNCHANGED <<env, functions, apis, op, args, snap, urls, calls>>

\* ------------------------------------- function_tools.py: delete_function
FunctionNotFound == "ResourceNotFoundException"

\* Lambda's DeleteFunction.
LambdaDelete(fns, name) ==
    IF ~fns[name].exists
    THEN [err |-> FunctionNotFound, functions |-> fns]
    ELSE [err |-> "", functions |-> [fns EXCEPT ![name] = NoFunction]]

\* A mutation: a function that is not there counts as deleted.
DeleteFunctionIdempotent(fns, name) ==
    [err |-> "", functions |-> LambdaDelete(fns, name).functions, val |-> TRUE]

\* delete_function(function_name): the outcome, the functions after it and
\* the value returned.
DeleteFunction(fns, name) ==
    LET r == LambdaDelete(fns, name)
    IN  [err |-> r.err, functions |-> r.functions, val |-> TRUE]

Invoke_delete_function ==
    \E n \in Names :
        Invoke("delete_function", [NoArgs EXCEPT !.function_name = n],
               "delete_function")

delete_function ==
    /\ pc = "delete_function"
    /\ LET r == DeleteFunction(functions, args.function_name)
       IN  /\ log' = Append(log, <<"delete_function", IF r.err = "" THEN "ok" ELSE r.err>>)
           /\ functions' = r.functions
           /\ IF r.err = "" THEN Return(r.val) ELSE Raise(r.err)
    /\ UNCHANGED <<env, fs, store, apis, op, args, loc, snap, urls, calls>>

\* ------------------------------------- function_tools.py: update_function
\* Lambda's UpdateFunctionConfiguration(Layers=...).
LambdaUpdateConfiguration(fns, name, layers) ==
    IF ~fns[name].exists
    THEN [err |-> FunctionNotFound, functions |-> fns]
    ELSE [err |-> "", functions |-> [fns EXCEPT ![name].layers = layers]]

\* Lambda's UpdateFunctionCode(S3Bucket, S3Key).
LambdaUpdateCode(fns, name, bucket, key) ==
    IF ~fns[name].exists
    THEN [err |-> FunctionNotFound, functions |-> fns]
    ELSE [err |-> "", functions |-> [fns EXCEPT ![name].code = <<bucket, key>>]]

\* The function information Lambda answers with.
Arn(name) == <<"arn:aws:lambda", name>>
Descriptor(name) == [FunctionName |-> name, FunctionArn |-> Arn(name)]

Invoke_update_function ==
    \E n \in Names, d \in {SourceDir, MissingDir}, b \in Buckets,
       l \in UpdateLayers :
        Invoke("update_function",
               [NoArgs EXCEPT !.function_name = n, !.layers = l,
                              !.to_zip = d, !.zip_name = TmpZip, !.overwrite = TRUE,
                              !.bucket_name = b, !.key = NoneKey,
                              !.create_bucket = TRUE],
               "zip_to")

\* add_layers_to_function(function_name, layers)
update_function_configuration ==
    /\ pc = "update_function_configuration"
    /\ \E fault \in BOOLEAN :
       LET r == IF fault THEN [err |-> "ClientError", functions |-> functions]
                ELSE LambdaUpdateConfiguration(functions, args.function_name,
                                               args.layers.list)
       IN  /\ log' = Append(log, <<"update_function_configuration",
                                   IF r.err = "" THEN "ok" ELSE r.err>>)
           /\ functions' = r.functions
           /\ IF r.err = ""
              THEN pc' = "update_function_code" /\ UNCHANGED result
              ELSE Raise(r.err)
    /\ UNCHANGED <<env, fs, store, apis, op, args, loc, snap, urls, calls>>

\* update_lambda_code_from_s3(s3ed.key, bucket_name, function_name)
update_function_code ==
    /\ pc = "update_function_code"
    /\ \E fault \in BOOLEAN :
       LET r == IF fault THEN [err |-> "ClientError", functions |-> functions]
                ELSE LambdaUpdateCode(functions, args.function_name,
                                      args.bucket_name, loc.s3ed.key)
       IN  /\ log' = Append(log, <<"update_function_code",
                                   IF r.err = "" THEN "ok" ELSE r.err>>)
           /\ functions' = r.functions
           /\ IF r.err = ""
              THEN Return(Descriptor(args.function_name))
              ELSE Raise(r.err)
    /\ UNCHANGED <<env, fs, store, apis, op, args, loc, snap, urls, calls>>

\* ------------------------------ function_tools.py: create_lambda_api_link
\* API Gateway gives every new REST API an identifier no other API has.
NewApiId(as) == Len(as) + 1

NewApi(id, name) ==
    [id |-> id, name |-> name, path_part |-> "", method |-> FALSE,
     uri |-> <<>>, stage |-> ""]

\* API Gateway's CreateRestApi: it never looks a name up.
CreateRestApi(as, name) == Append(as, NewApi(NewApiId(as), name))

\* The URL create_lambda_api_link formats.
Url(rest_api_id, stage_name, path_part) ==
    <<"https://", rest_api_id, ".execute-api.eu-west-1.amazonaws.com/",
      stage_name, "/", path_part, "/">>

\* The integration URI create_lambda_api_link formats.
Uri(function_arn) ==
    <<"arn:aws:apigateway:eu-west-1:lambda:path/2015-03-31/functions/",
      function_arn, "/invocations">>

Invoke_create_lambda_api_link ==
    /\ Len(apis) < MaxApis
    /\ \E a \in Names, st \in Stages :
        Invoke("create_lambda_api_link",
               [NoArgs EXCEPT !.function_arn = Arn("f1"), !.api_name = a,
                              !.path_part = "api", !.stage_name = st],
               "create_rest_api")

\* One call of the apigateway client that is not the last: it fails, or
\* changes the APIs and the local variables and goes on.
ApiStep(here, name, as, l, next) ==
    /\ pc = here
    /\ \E fault \in BOOLEAN :
       /\ log' = Append(log, <<name, IF fault THEN "ClientError" ELSE "ok">>)
       /\ IF fault
          THEN Raise("ClientError") /\ UNCHANGED <<apis, loc>>
          ELSE apis' = as /\ loc' = l /\ pc' = next /\ UNCHANGED result
    /\ UNCHANGED <<env, fs, store, functions, op, args, snap, urls, calls>>

\* A mutation: an API of that name is looked up and used when there is one.
create_rest_api_reuses ==
    IF \E i \in 1..Len(apis) : apis[i].name = args.api_name
    THEN ApiStep("create_rest_api", "create_rest_api", apis,
                 [loc EXCEPT !.rest_api_id =
                     CHOOSE i \in 1..Len(apis) : apis[i].name = args.api_name],
                 "get_resources")
    ELSE ApiStep("create_rest_api", "create_rest_api",
                 CreateRestApi(apis, args.api_name),
                 [loc EXCEPT !.rest_api_id = NewApiId(apis)],
                 "get_resources")

create_rest_api ==
    ApiStep("create_rest_api", "create_rest_api",
            CreateRestApi(apis, args.api_name),
            [loc EXCEPT !.rest_api_id = NewApiId(apis)],
            "get_resources")

get_resources ==
    ApiStep("get_resources", "get_resources", apis,
            [loc EXCEPT !.parent_resource = <<loc.rest_api_id, "/">>],
            "create_resource")

create_resource ==
    ApiStep("create_resource", "create_resource",
            [apis EXCEPT ![loc.rest_api_id].path_part = args.path_part],
            [loc EXCEPT !.created_resource_id = <<loc.rest_api_id, args.path_part>>],
            "put_method")

put_method ==
    ApiStep("put_method", "put_method",
            [apis EXCEPT ![loc.rest_api_id].method = TRUE], loc,
            "put_integration")

put_integration ==
    ApiStep("put_integration", "put_integration",
            [apis EXCEPT ![loc.rest_api_id].uri = Uri(args.function_arn)], loc,
            "create_deployment")

\* client.create_deployment, then the URL is formatted and returned.
create_deployment ==
    /\ pc = "create_deployment"
    /\ \E fault \in BOOLEAN :
       /\ log' = Append(log, <<"create_deployment",
                               IF fault THEN "ClientError" ELSE "ok">>)
       /\ IF fault
          THEN Raise("ClientError") /\ UNCHANGED <<apis, urls>>
          ELSE LET url == Url(loc.rest_api_id, args.stage_name, args.path_part)
               IN  /\ apis' = [apis EXCEPT ![loc.rest_api_id].stage = args.stage_name]
                   /\ urls' = Append(urls, [api_name |-> args.api_name, url |-> url])
                   /\ Return(url)
    /\ UNCHANGED <<env, fs, store, functions, op, args, loc, snap, calls>>

\* ------------------------------------- function_tools.py: create_function
\* `if not layers: layers = []`
LayersOrEmpty(layers) == IF Truthy(layers) THEN layers.list ELSE <<>>

\* Lambda's CreateFunction.
LambdaCreate(fns, name, code, layers) ==
    IF fns[name].exists
    THEN [err |-> "ResourceConflictException", functions |-> fns]
    ELSE [err |-> "",
          functions |-> [fns EXCEPT ![name] =
              [exists |-> TRUE, code |-> code, layers |-> layers, perm |-> FALSE]]]

\* Lambda's AddPermission with the statement id "apigateway".
LambdaAddPermission(fns, name) ==
    IF ~fns[name].exists
    THEN [err |-> FunctionNotFound, functions |-> fns]
    ELSE IF fns[name].perm
    THEN [err |-> "ResourceConflictException", functions |-> fns]
    ELSE [err |-> "", functions |-> [fns EXCEPT ![name].perm = TRUE]]

DeployedMessage == "Function deployed successfully"

Invoke_create_function ==
    \E n \in Names, d \in {SourceDir, MissingDir}, b \in Buckets,
       l \in CreateLayers, g \in BOOLEAN :
        Invoke("create_function",
               [NoArgs EXCEPT !.function_name = n, !.layers = l,
                              !.api_gateway_permission = g,
                              !.to_zip = d, !.zip_name = TmpZip, !.overwrite = FALSE,
                              !.bucket_name = b, !.key = NoneKey,
                              !.create_bucket = TRUE],
               "zip_to")

\* create_function returns lambda_function: to the caller, or to
\* deploy_function, which goes on with `arn = f["FunctionArn"]`.
CreateReturns(f) ==
    IF op = "create_function"
    THEN Return(f) /\ UNCHANGED <<args, loc>>
    ELSE IF args.make_api
    THEN /\ pc' = "create_rest_api"
         /\ loc' = [loc EXCEPT !.arn = f.FunctionArn]
         /\ args' = [args EXCEPT !.function_arn = f.FunctionArn,
                                 !.api_name = args.function_name,
                                 !.path_part = "api", !.stage_name = "test"]
         /\ UNCHANGED result
    ELSE Return(DeployedMessage) /\ UNCHANGED <<args, loc>>

\* A mutation: a failure of client.create_function is swallowed.
create_function_swallows ==
    /\ pc = "create_function"
    /\ \E fault \in BOOLEAN :
       LET r == IF fault THEN [err |-> "ClientError", functions |-> functions]
                ELSE LambdaCreate(functions, args.function_name,
                                  <<loc.s3ed.bucket_name, loc.s3ed.key>>,
                                  LayersOrEmpty(args.layers))
       IN  /\ log' = Append(log, <<"create_function", IF r.err = "" THEN "ok" ELSE r.err>>)
           /\ functions' = r.functions
           /\ IF args.api_gateway_permission
              THEN pc' = "add_permission" /\ UNCHANGED <<args, loc, result>>
              ELSE CreateReturns(Descriptor(args.function_name))
    /\ UNCHANGED <<env, fs, store, apis, op, snap, urls, calls>>

\* client.create_function(...)
create_function ==
    /\ pc = "create_function"
    /\ \E fault \in BOOLEAN :
       LET r == IF fault THEN [err |-> "ClientError", functions |-> functions]
                ELSE LambdaCreate(functions, args.function_name,
                                  <<loc.s3ed.bucket_name, loc.s3ed.key>>,
                                  LayersOrEmpty(args.layers))
       IN  /\ log' = Append(log, <<"create_function", IF r.err = "" THEN "ok" ELSE r.err>>)
           /\ functions' = r.functions
           /\ IF r.err # ""
              THEN Raise(r.err) /\ UNCHANGED <<args, loc>>
              ELSE IF args.api_gateway_permission
              THEN pc' = "add_permission" /\ UNCHANGED <<args, loc, result>>
              ELSE CreateReturns(Descriptor(args.function_name))
    /\ UNCHANGED <<env, fs, store, apis, op, snap, urls, calls>>

\* A mutation: a failed grant deletes the function again.
add_permission_rolls_back ==
    /\ pc = "add_permission"
    /\ \E fault \in BOOLEAN :
       LET r == IF fault THEN [err |-> "ClientError", functions |-> functions]
                ELSE LambdaAddPermission(functions, args.function_name)
       IN  /\ log' = Append(log, <<"add_permission", IF r.err = "" THEN "ok" ELSE r.err>>)
           /\ IF r.err # ""
              THEN /\ functions' = LambdaDelete(r.functions, args.function_name).functions
                   /\ Raise(r.err)
                   /\ UNCHANGED <<args, loc>>
              ELSE /\ functions' = r.functions
                   /\ CreateReturns(Descriptor(args.function_name))
    /\ UNCHANGED <<env, fs, store, apis, op, snap, urls, calls>>

\* client.add_permission(...)
add_permission ==
    /\ pc = "add_permission"
    /\ \E fault \in BOOLEAN :
       LET r == IF fault THEN [err |-> "ClientError", functions |-> functions]
                ELSE LambdaAddPermission(functions, args.function_name)
       IN  /\ log' = Append(log, <<"add_permission", IF r.err = "" THEN "ok" ELSE r.err>>)
           /\ functions' = r.functions
           /\ IF r.err # ""
              THEN Raise(r.err) /\ UNCHANGED <<args, loc>>
              ELSE CreateReturns(Descriptor(args.function_name))
    /\ UNCHANGED <<env, fs, store, apis, op, snap, urls, calls>>

\* ------------------------------------- function_tools.py: deploy_function
Invoke_deploy_function ==
    /\ Len(apis) < MaxApis
    /\ \E n \in Names, d \in {SourceDir, MissingDir}, b \in Buckets,
          l \in CreateLayers, m \in BOOLEAN :
        Invoke("deploy_function",
               [NoArgs EXCEPT !.function_name = n, !.layers = l, !.make_api = m,
                              !.api_gateway_permission = TRUE,
                              !.to_zip = d, !.zip_name = TmpZip, !.overwrite = FALSE,
                              !.bucket_name = b, !.key = NoneKey,
                              !.create_bucket = TRUE],
               "zip_to")

\* -------------------------------------------- decorators.py: lambda_api
\* json.loads(input_body)
JsonLoads(text) ==
    CASE text = "{\"x\": 1}" ->
             [err |-> "", val |-> [type |-> "dict", items |-> <<"x", "1">>]]
      [] text = "[1]" ->
             [err |-> "", val |-> [type |-> "list", items |-> <<"1">>]]
      [] OTHER ->
             [err |-> "JSONDecodeError", val |-> [type |-> "", items |-> <<>>]]

\* json.dumps(body): sets are not JSON serializable.
JsonDumps(v) ==
    IF v.type \in {"dict", "list"}
    THEN [err |-> "", val |-> <<"json of", v.type, v.items>>]
    ELSE [err |-> "TypeError", val |-> <<>>]

\* What the handler f may do when it is called.
HandlerOutcomes == {"returns", "returns a set", "raises Exception", "raises SystemExit"}

\* f(**x) or f(): what it raises, and what it returns.
HandlerCall(kwargs, o) ==
    CASE o = "returns" ->
             [raised |-> "", val |-> [type |-> "list", items |-> <<"f of">> \o kwargs]]
      [] o = "returns a set" ->
             [raised |-> "", val |-> [type |-> "set", items |-> kwargs]]
      [] o = "raises Exception" ->
             [raised |-> "Exception", val |-> [type |-> "", items |-> <<>>]]
      [] OTHER ->
             [raised |-> "SystemExit", val |-> [type |-> "", items |-> <<>>]]

\* The exceptions that `except Exception` catches; SystemExit is none.
IsException(e) == e \in {"KeyError", "JSONDecodeError", "TypeError", "Exception"}

\* body = f(...); body = json.dumps(body)
InvokeAndDump(kwargs, o, steps) ==
    LET h == HandlerCall(kwargs, o)
        d == JsonDumps(h.val)
    IN  IF h.raised # ""
        THEN [raised |-> h.raised, body |-> <<>>,
              steps |-> Append(steps, <<"handler", h.raised>>)]
        ELSE [raised |-> d.err, body |-> d.val,
              steps |-> steps \o << <<"handler", "ok">>,
                                    <<"dumps", IF d.err = "" THEN "ok" ELSE d.err>> >>]

\* The try block of wrapper: what it raises, the body it computes and the
\* steps it makes.
TryBlock(event, o) ==
    IF ~event.has_body
    THEN [raised |-> "KeyError", body |-> <<>>,
          steps |-> << <<"parse", "KeyError">> >>]
    ELSE IF event.body # ""
    THEN LET x == JsonLoads(event.body)
         IN  IF x.err # ""
             THEN [raised |-> x.err, body |-> <<>>,
                   steps |-> << <<"parse", x.err>> >>]
             ELSE IF x.val.type # "dict"
             THEN [raised |-> "TypeError", body |-> <<>>,
                   steps |-> << <<"parse", "ok">>, <<"handler", "TypeError">> >>]
             ELSE InvokeAndDump(x.val.items, o, << <<"parse", "ok">> >>)
    ELSE InvokeAndDump(<<>>, o, << <<"parse", "ok">> >>)

ErrorBody == <<"An Error Occurred">>

\* The except, else and finally clauses of wrapper: base after them.
AfterTry(base, t) ==
    IF t.raised = ""
    THEN [base EXCEPT !.body = t.body, !.statusCode = 200,
                      !.keys = @ \cup {"statusCode", "body"}]
    ELSE IF IsException(t.raised)
    THEN [base EXCEPT !.body = ErrorBody, !.statusCode = 500,
                      !.keys = @ \cup {"statusCode", "body"}]
    ELSE base

Invoke_wrapper ==
    \E e \in Events :
        Invoke("wrapper", [NoArgs EXCEPT !.event = e], "wrapper")

\* wrapper(*args): it returns base itself, whatever the try block raised.
wrapper ==
    /\ pc = "wrapper"
    /\ \E o \in HandlerOutcomes :
       LET t == TryBlock(args.event, o)
           b == AfterTry(heap[BaseRef], t)
       IN  /\ log' = log \o t.steps
           /\ heap' = [heap EXCEPT ![BaseRef] = b]
           /\ returned' = Append(returned,
                  [ref |-> BaseRef, statusCode |-> b.statusCode, body |-> b.body])
           /\ Return(BaseRef)
    /\ UNCHANGED <<platform, fs, store, functions, apis, op, args, loc, snap,
                   urls, calls>>

Next ==
    \/ Invoke_zip_to
    \/ zip_to
    \/ Invoke_push_to_s3
    \/ put_object
    \/ bucket_create
    \/ put_object_retry
    \/ Invoke_delete_function
    \/ delete_function
    \/ Invoke_update_function
    \/ update_function_configuration
    \/ update_function_code
    \/ Invoke_create_lambda_api_link
    \/ create_rest_api
    \/ get_resources
    \/ create_resource
    \/ put_method
    \/ put_integration
    \/ create_deployment
    \/ Invoke_create_function
    \/ create_function
    \/ add_permission
    \/ Invoke_deploy_function
    \/ Invoke_wrapper
    \/ wrapper

Spec == Init /\ [][Next]_vars
\* ================================================================ properties
Done == pc = "done"
Last(q) == q[Len(q)]
Has(q, e) == \E i \in 1..Len(q) : q[i] = e
Faulted == \E i \in 1..Len(log) : log[i][2] = "ClientError"

\* The stage of deploy_function a step belongs to.
StageOf(e) ==
    CASE e[1] = "zip_to" -> 1
      [] e[1] \in {"put_object", "bucket_create"} -> 2
      [] e[1] \in {"create_function", "add_permission"} -> 3
      [] OTHER -> 4

\* The step that ends a stage of deploy_function successfully.
Completes(st) ==
    CASE st = 1 -> <<"zip_to", "ok">>
      [] st = 2 -> <<"put_object", "ok">>
      [] st = 3 -> <<"add_permission", "ok">>
      [] OTHER -> <<"create_deployment", "ok">>

\* C1: in every run of deploy_function the stages come in the order archive,
\* upload, register, route; a stage starts only right after the step that
\* completes the stage before it; route steps happen only when make_api is
\* set; a failed step is followed by no step of a later stage, and when the
\* run ends on a failed step deploy_function raises that step's error.
C1_DeployStagesInOrder ==
    op = "deploy_function" =>
        /\ Len(log) >= 1 => StageOf(log[1]) = 1
        /\ \A i \in 1..(Len(log) - 1) :
              \/ StageOf(log[i + 1]) = StageOf(log[i])
              \/ /\ StageOf(log[i + 1]) = StageOf(log[i]) + 1
                 /\ log[i] = Completes(StageOf(log[i]))
        /\ \A i \in 1..Len(log) : StageOf(log[i]) = 4 => args.make_api
        /\ \A i \in 1..(Len(log) - 1) :
              log[i][2] # "ok" =>
                  /\ log[i] = <<"put_object", "NoSuchBucket">>
                  /\ log[i + 1][1] = "bucket_create"
        /\ Done =>
              /\ Len(log) >= 1
              /\ IF Last(log)[2] # "ok"
                 THEN result = Err(Last(log)[2])
                 ELSE /\ result.status = "ok"
                      /\ Last(log) = Completes(IF args.make_api THEN 4 ELSE 3)

\* C1 witness: a deploy that asked for a route ended on the failed
\* registration of a name that was taken.
C1_Witness ==
    /\ op = "deploy_function" /\ Done /\ args.make_api
    /\ snap.functions[args.function_name].exists
    /\ Last(log) = <<"create_function", "ResourceConflictException">>
    /\ result = Err("ResourceConflictException")

\* C2: zip_to on an existing directory with zip_name already there raises
\* FileExistsError and leaves zip_name as it was unless overwrite is set;
\* with overwrite set it succeeds and zip_name holds the new archive.
C2_OverwriteGate ==
    (/\ op = "zip_to" /\ Done
     /\ args.to_zip \in Dirs
     /\ snap.fs[args.zip_name] # "none") =>
        IF args.overwrite
        THEN /\ result = Ok(args.zip_name)
             /\ fs[args.zip_name] = Archive(args.to_zip)
        ELSE /\ result = Err("FileExistsError")
             /\ fs[args.zip_name] = snap.fs[args.zip_name]

\* The key the caller of push_to_s3 expects the object under.
ExpectedKey == IF args.key = NoneKey THEN BaseName(args.file) ELSE args.key

\* C3: after a successful push_to_s3 the object is stored under key when
\* the caller gave one and under the file's name when not, and the returned
\* object carries that key, whether the bucket existed or was created.
C3_StoredUnderKey ==
    (op = "push_to_s3" /\ Done /\ result.status = "ok") =>
        /\ store.objects[<<args.bucket_name, ExpectedKey>>] = fs[args.file]
        /\ result.val = S3Object(args.bucket_name, ExpectedKey)

\* A push_to_s3 of an existing file to a bucket that was not there.
ToMissingBucket ==
    /\ op = "push_to_s3" /\ Done
    /\ fs[args.file] # "none"
    /\ args.bucket_name \notin snap.store.buckets

\* C4: push_to_s3 to a bucket that does not exist: with create_bucket it
\* creates the bucket and writes again, and when no service call faults the
\* call succeeds with the bucket there and the object in it; without
\* create_bucket it raises (NoSuchBucket, when the write did not fault
\* otherwise) without a create call, and S3 is as it was.
C4_AutoCreate ==
    ToMissingBucket =>
        IF args.create_bucket
        THEN ~Faulted =>
                /\ log = << <<"put_object", "NoSuchBucket">>,
                            <<"bucket_create", "ok">>,
                            <<"put_object", "ok">> >>
                /\ result.status = "ok"
                /\ args.bucket_name \in store.buckets
                /\ store.objects[<<args.bucket_name, result.val.key>>] = fs[args.file]
        ELSE /\ result.status = "err"
             /\ Len(log) = 1 /\ log[1][1] = "put_object"
             /\ ~Faulted => result = Err("NoSuchBucket")
             /\ store = snap.store

\* C4 witness: the bucket was missing, was created and holds the object.
C4_Witness ==
    /\ ToMissingBucket /\ args.create_bucket /\ result.status = "ok"
    /\ args.bucket_name \in store.buckets
    /\ Has(log, <<"bucket_create", "ok">>)

\* The S3 calls of this invocation.
PushLog == SelectSeq(log, LAMBDA e : e[1] \in {"put_object", "bucket_create"})

\* C5: one push_to_s3 makes at most two writes and at most one create
\* call; the second write happens exactly when the first one failed with
\* NoSuchBucket, create_bucket is set and the create call succeeded; every
\* other failure ends the call and is raised to the caller.
C5_RetryOnce ==
    LET L == PushLog
    IN  /\ Len(L) <= 3
        /\ Len(L) >= 1 => L[1][1] = "put_object"
        /\ Len(L) >= 2 =>
              /\ L[1] = <<"put_object", "NoSuchBucket">>
              /\ args.create_bucket
              /\ L[2][1] = "bucket_create"
        /\ Len(L) = 3 =>
              /\ L[2] = <<"bucket_create", "ok">>
              /\ L[3][1] = "put_object"
        /\ (Done /\ Len(L) >= 1) =>
              /\ (L[1] = <<"put_object", "NoSuchBucket">> /\ args.create_bucket)
                    => Len(L) >= 2
              /\ (Len(L) >= 2 /\ L[2] = <<"bucket_create", "ok">>) => Len(L) = 3
              /\ Last(L)[2] # "ok" => result = Err(Last(L)[2])

\* C5 witness: the write after the create call failed and was raised.
C5_Witness ==
    /\ op = "push_to_s3" /\ Done
    /\ PushLog = << <<"put_object", "NoSuchBucket">>,
                    <<"bucket_create", "ok">>,
                    <<"put_object", "ClientError">> >>
    /\ result = Err("ClientError")
\* C6: when zip_to returns or raises, no file other than zip_name differs
\* from what it was before the call: the archive make_archive wrote is gone
\* and nothing else was overwritten.
C6_OnlyDestinationTouched ==
    (op = "zip_to" /\ Done) =>
        \A p \in Files \ {args.zip_name} : fs[p] = snap.fs[p]

\* C7: after a successful update_function the function's layers are the
\* list that was given, the empty list included, and are what they were
\* when no list was given.
C7_LayersReplaced ==
    (op = "update_function" /\ Done /\ result.status = "ok") =>
        functions[args.function_name].layers =
            IF args.layers.supplied
            THEN args.layers.list
            ELSE snap.functions[args.function_name].layers

\* C8: when a call ends with an error, the error is that of its last step
\* and what the steps before it did to S3, Lambda and API Gateway is still
\* there: the uploaded object, the created bucket, the created function
\* with its code and layers, the granted permission, the replaced layers,
\* the new API and what was added to it.
C8_NoRollback ==
    (Done /\ result.status = "err" /\ Len(log) >= 1) =>
        /\ result = Err(Last(log)[2])
        /\ Has(log, <<"bucket_create", "ok">>) =>
              args.bucket_name \in store.buckets
        /\ Has(log, <<"put_object", "ok">>) =>
              /\ loc.s3ed.bucket_name = args.bucket_name
              /\ store.objects[<<loc.s3ed.bucket_name, loc.s3ed.key>>]
                    = Archive(args.to_zip)
        /\ Has(log, <<"create_function", "ok">>) =>
              functions[args.function_name] =
                  [exists |-> TRUE,
                   code |-> <<loc.s3ed.bucket_name, loc.s3ed.key>>,
                   layers |-> LayersOrEmpty(args.layers),
                   perm |-> Has(log, <<"add_permission", "ok">>)]
        /\ Has(log, <<"update_function_configuration", "ok">>) =>
              /\ functions[args.function_name].exists
              /\ functions[args.function_name].layers = args.layers.list
        /\ Has(log, <<"create_rest_api", "ok">>) =>
              /\ loc.rest_api_id \in (1..Len(apis)) \ (1..Len(snap.apis))
              /\ apis[loc.rest_api_id].name = args.api_name
              /\ Has(log, <<"create_resource", "ok">>) =>
                    apis[loc.rest_api_id].path_part = args.path_part
              /\ Has(log, <<"put_method", "ok">>) => apis[loc.rest_api_id].method
              /\ Has(log, <<"put_integration", "ok">>) =>
                    apis[loc.rest_api_id].uri = Uri(args.function_arn)

\* C8 witness: a deploy whose last route step failed; the function is
\* registered, with its permission, and the artifact is stored.
C8_Witness ==
    /\ op = "deploy_function" /\ Done
    /\ result = Err("ClientError")
    /\ Last(log) = <<"create_deployment", "ClientError">>
    /\ functions[args.function_name].exists
    /\ functions[args.function_name].perm
    /\ ~snap.functions[args.function_name].exists
    /\ store.objects[<<args.bucket_name, BaseName(TmpZip)>>] = Archive(SourceDir)

\* The API a URL names: the identifier is the URL's second part.
ApiOf(url) == url[2]

\* C9: every URL that was returned names an API of its own, which exists,
\* has the name that was asked for and is deployed at the URL's stage and
\* path; so k successful calls with one name leave at least k APIs of that
\* name.  The URL a call returns is made of the identifier of the API that
\* this call created, the stage name and the path part.
C9_AlwaysNewApi ==
    /\ \A i \in 1..Len(apis) : apis[i].id = i
    /\ \A i \in 1..Len(urls) :
          /\ ApiOf(urls[i].url) \in 1..Len(apis)
          /\ LET a == apis[ApiOf(urls[i].url)]
             IN  /\ a.name = urls[i].api_name
                 /\ urls[i].url = Url(a.id, a.stage, a.path_part)
    /\ \A i, j \in 1..Len(urls) :
          i # j => ApiOf(urls[i].url) # ApiOf(urls[j].url)
    /\ \A n \in Names :
          Cardinality({i \in 1..Len(apis) : apis[i].name = n})
              >= Cardinality({i \in 1..Len(urls) : urls[i].api_name = n})
    /\ (Done /\ Has(log, <<"create_deployment", "ok">>)) =>
          /\ loc.rest_api_id \in (1..Len(apis)) \ (1..Len(snap.apis))
          /\ result = Ok(Url(loc.rest_api_id, args.stage_name, args.path_part))
          /\ Last(urls) = [api_name |-> args.api_name, url |-> result.val]

\* C9 witness: two calls with the same name succeeded.
C9_Witness ==
    /\ Len(urls) = 2
    /\ urls[1].api_name = urls[2].api_name
    /\ Done /\ op = "create_lambda_api_link"

\* What delete_function does not touch is as the call found it.
RestAsFound == fs = snap.fs /\ store = snap.store /\ apis = snap.apis

\* C10: delete_function of a name that is not a function raises
\* ResourceNotFoundException and changes nothing; of a function, it removes
\* that function, leaves the others and returns True.
C10_DeleteStrict ==
    (op = "delete_function" /\ Done) =>
        /\ RestAsFound
        /\ IF snap.functions[args.function_name].exists
           THEN /\ result = Ok(TRUE)
                /\ functions = [snap.functions EXCEPT ![args.function_name] = NoFunction]
           ELSE /\ result = Err(FunctionNotFound)
                /\ functions = snap.functions

\* C10 witness: delete_function of a missing name, with another function
\* there, raised the error.
C10_Witness ==
    /\ op = "delete_function" /\ Done
    /\ ~snap.functions[args.function_name].exists
    /\ \E n \in Names : functions[n].exists
    /\ result = Err(FunctionNotFound)
\* The keyword arguments the handler is called with for a request.
KwargsOf(event) == IF event.body = "" THEN <<>> ELSE JsonLoads(event.body).val.items

\* Reading the body, calling the handler and serializing all succeeded.
AllThreeSucceeded ==
    log = << <<"parse", "ok">>, <<"handler", "ok">>, <<"dumps", "ok">> >>

\* C11: the wrapped handler always returns a response and never raises:
\* when reading the body, calling the handler or serializing its result
\* failed, the response has statusCode 500 and the body "An Error
\* Occurred"; when all three succeeded it has statusCode 200 and the
\* serialized result of the handler as its body.
C11_AdapterResponse ==
    (op = "wrapper" /\ Done) =>
        /\ result.status = "ok"
        /\ LET r == heap[result.val]
           IN  IF AllThreeSucceeded
               THEN /\ r.statusCode = 200
                    /\ r.body = JsonDumps(HandlerCall(KwargsOf(args.event),
                                                      "returns").val).val
               ELSE /\ r.statusCode = 500
                    /\ r.body = ErrorBody

\* C12: every response that was returned still has the statusCode and the
\* body it was returned with, whatever was invoked after it.
C12_ResponsesIndependent ==
    \A i \in 1..Len(returned) :
        /\ heap[returned[i].ref].statusCode = returned[i].statusCode
        /\ heap[returned[i].ref].body = returned[i].body
====
